---- MODULE Spec2Model ----
(***************************************************************************)
(* Heartbeat monitor (src/main.py, class HeartbeatMonitor).                *)
(*                                                                         *)
(* Values.  A JSON value that may appear as an event is modelled by the    *)
(* record [kind, service, timestamp]; kind is "dict", "null" or "string".  *)
(* A field value is [tag, ...] with tag "absent" (key not in the dict),    *)
(* "str" or "num".  A service text is a sequence of one-character strings, *)
(* so that str.strip() is computed and not assumed.  A timestamp text is   *)
(* [wall, suffix]: wall is the wall-clock reading in seconds counted from  *)
(* 2025-08-04T10:00:00, suffix is the text that follows the seconds        *)
(* ("Z", "+00:00", "+01:00", "" or "invalid" for unparseable text).        *)
(* A datetime is [kind, wall, off]: kind "aware" (tzinfo with utcoffset    *)
(* off seconds), "naive" (no tzinfo) or "none" (parse failure, None).      *)
(* ctor_args records the arguments HeartbeatMonitor(...) was called with,  *)
(* source the file load_events was given, accepted the values              *)
(* validate_event returned for the first entries of events, in order.      *)
(***************************************************************************)
EXTENDS Integers, Sequences, FiniteSets, TLC

VARIABLES expected_interval_seconds, allowed_misses, events, ncalls, pc,
          service_events, svc, i, consecutive_misses, alerts, history,
          ctor_args, source, accepted

vars == <<expected_interval_seconds, allowed_misses, events, ncalls, pc,
          service_events, svc, i, consecutive_misses, alerts, history,
          ctor_args, source, accepted>>

(* ------------------------------ bounds --------------------------------- *)

MaxEvents == 4
MaxTick == 7
MaxRawEvents == 3
MaxRawTick == 3
MaxTzEvents == 3
MaxTzTick == 4
MaxMultiEvents == 4
MaxMultiTick == 4
MaxCalls == 2
MaxCtorArg == 2
MaxCtorEvents == 3
MaxLoadEvents == 3
MaxLoadTick == 3
MaxLaterEvents == 3
MaxLaterTick == 3
MaxAdded == 1
MaxValidEvents == 2

(* --------------------------- small helpers ----------------------------- *)

Lists(U, n) == UNION {[1..k -> U] : k \in 0..n}

RECURSIVE SumSeq(_)
SumSeq(s) == IF s = <<>> THEN 0 ELSE Head(s) + SumSeq(Tail(s))

Range(s) == {s[k] : k \in 1..Len(s)}

Min(S) == CHOOSE x \in S : \A y \in S : x <= y

(* ------------------------- JSON-like values ---------------------------- *)

Absent == [tag |-> "absent", text |-> <<>>]
Str(text) == [tag |-> "str", text |-> text]
Num(text) == [tag |-> "num", text |-> text]

NoTs == [tag |-> "absent", wall |-> 0, suffix |-> ""]
TsStr(wall, suffix) == [tag |-> "str", wall |-> wall, suffix |-> suffix]
TsNum(n) == [tag |-> "num", wall |-> n, suffix |-> ""]

Dict(service, timestamp) ==
    [kind |-> "dict", service |-> service, timestamp |-> timestamp]
Null == [kind |-> "null", service |-> Absent, timestamp |-> NoTs]
NotADict == [kind |-> "string", service |-> Absent, timestamp |-> NoTs]

(* The characters str.strip() removes, those for which str.isspace() holds:
   the space, tab, line feed, carriage return and form feed; the controls
   U+000B and U+001C..U+001F; U+0085, U+00A0 and U+1680.  The remaining
   ones (U+2000..U+200A, U+2028, U+2029, U+202F, U+205F, U+3000) cannot be
   written in a string of this module, so no text of the model holds them. *)
Whitespace ==
    {" ", "\t", "\n", "\r", "\f"}
    \cup {"", "", "", "", ""}
    \cup {"", " ", " "}

(* str.strip(): drop leading and trailing whitespace *)
RECURSIVE LStrip(_)
LStrip(t) == IF t # <<>> /\ Head(t) \in Whitespace THEN LStrip(Tail(t)) ELSE t

RECURSIVE RStrip(_)
RStrip(t) ==
    IF t # <<>> /\ t[Len(t)] \in Whitespace THEN RStrip(SubSeq(t, 1, Len(t) - 1)) ELSE t

strip(t) == RStrip(LStrip(t))

(* ---------------------------- datetimes -------------------------------- *)

None == [kind |-> "none", wall |-> 0, off |-> 0]
Aware(wall, off) == [kind |-> "aware", wall |-> wall, off |-> off]
Naive(wall) == [kind |-> "naive", wall |-> wall, off |-> 0]

OffsetSuffixes == {"+00:00", "+01:00"}
OffsetSeconds(suffix) == IF suffix = "+01:00" THEN 3600 ELSE 0

(* datetime.fromisoformat on the text wall/suffix *)
fromisoformat(wall, suffix) ==
    IF suffix \in OffsetSuffixes THEN Aware(wall, OffsetSeconds(suffix))
    ELSE IF suffix = "" THEN Naive(wall)
    ELSE None

(* parse_timestamp: a trailing 'Z' is rewritten to '+00:00'; a value that
   is not a string, or a text fromisoformat rejects, gives None *)
parse_timestamp(ts) ==
    IF ts.tag # "str" THEN None
    ELSE fromisoformat(ts.wall, IF ts.suffix = "Z" THEN "+00:00" ELSE ts.suffix)

(* the instant of a datetime, in seconds on the UTC scale *)
UtcSeconds(dt) == dt.wall - dt.off

(* datetime + timedelta(seconds=s): same tzinfo, wall clock moved *)
PlusSeconds(dt, s) == [dt EXCEPT !.wall = @ + s]

(* datetimes can be compared / subtracted only when both are aware or both
   are naive; anything else raises TypeError *)
Comparable(d1, d2) == d1.kind = d2.kind /\ d1.kind # "none"

(* (d1 - d2).total_seconds() for comparable datetimes *)
DiffSeconds(d1, d2) ==
    IF d1.kind = "aware" THEN UtcSeconds(d1) - UtcSeconds(d2)
    ELSE d1.wall - d2.wall

(* strftime('%Y-%m-%dT%H:%M:%SZ'): the wall-clock fields of the datetime
   followed by the literal character Z *)
strftime(dt) == TsStr(dt.wall, "Z")

(* ---------------------------- validation ------------------------------- *)

validate_event(event) ==
    /\ event.kind = "dict"
    /\ event.service.tag # "absent" /\ event.timestamp.tag # "absent"
    /\ event.service.tag = "str" /\ strip(event.service.text) # <<>>
    /\ parse_timestamp(event.timestamp) # None

(* ------------------------ group_and_sort_events ------------------------ *)

Ok(groups) == [status |-> "ok", exc |-> "", groups |-> groups]
Raise(exc) == [status |-> "raise", exc |-> exc, groups |-> <<>>]

(* position of the dict entry whose key equals service, 0 when there is none;
   dict keys compare by value and type, the text is neither trimmed nor
   case-folded *)
KeyIndex(groups, service) ==
    IF \E k \in 1..Len(groups) : groups[k].service = service
    THEN CHOOSE k \in 1..Len(groups) : groups[k].service = service
    ELSE 0

(* the grouping loop: service_events[service].append(event), a new key is
   added at the end of the dict (insertion order) *)
RECURSIVE GroupFrom(_, _, _)
GroupFrom(evs, k, groups) ==
    IF k > Len(evs) THEN Ok(groups)
    ELSE LET event == evs[k] IN
         IF event.kind # "dict" THEN Raise("TypeError")
         ELSE IF event.service.tag = "absent" THEN Raise("KeyError")
         ELSE LET idx == KeyIndex(groups, event.service) IN
              IF idx = 0
              THEN GroupFrom(evs, k + 1,
                       Append(groups, [service |-> event.service,
                                       events |-> <<event>>]))
              ELSE GroupFrom(evs, k + 1,
                       [groups EXCEPT ![idx].events = Append(@, event)])

(* the sort key of an event *)
SortKey(event) == parse_timestamp(event.timestamp)

(* key(e1) < key(e2) for comparable keys *)
KeyLess(e1, e2) == DiffSeconds(SortKey(e1), SortKey(e2)) < 0

(* stable insertion: e goes after every element whose key is <= its key *)
RECURSIVE InsertSorted(_, _)
InsertSorted(sorted, e) ==
    IF sorted = <<>> THEN <<e>>
    ELSE LET last == sorted[Len(sorted)] IN
         IF KeyLess(e, last)
         THEN Append(InsertSorted(SubSeq(sorted, 1, Len(sorted) - 1), e), last)
         ELSE Append(sorted, e)

RECURSIVE SortFrom(_, _, _)
SortFrom(evs, k, sorted) ==
    IF k > Len(evs) THEN sorted
    ELSE SortFrom(evs, k + 1, InsertSorted(sorted, evs[k]))

(* list.sort(key=...) of one service's list: the keys are computed first
   (KeyError when an event has no 'timestamp'), then compared (TypeError as
   soon as two keys are not comparable: None, or naive against aware) *)
SortOutcome(evs) ==
    IF \E k \in 1..Len(evs) : evs[k].timestamp.tag = "absent" THEN "KeyError"
    ELSE IF /\ Len(evs) >= 2
            /\ \E k \in 1..Len(evs) : ~Comparable(SortKey(evs[1]), SortKey(evs[k]))
         THEN "TypeError"
    ELSE "ok"

sort(evs) == SortFrom(evs, 1, <<>>)

(* the sorting loop over the dict, in insertion order *)
RECURSIVE SortGroupsFrom(_, _)
SortGroupsFrom(groups, k) ==
    IF k > Len(groups) THEN Ok(groups)
    ELSE IF SortOutcome(groups[k].events) # "ok"
         THEN Raise(SortOutcome(groups[k].events))
    ELSE SortGroupsFrom([groups EXCEPT ![k].events = sort(@)], k + 1)

group_and_sort_events(evs) ==
    LET grouped == GroupFrom(evs, 1, <<>>) IN
    IF grouped.status = "raise" THEN grouped
    ELSE SortGroupsFrom(grouped.groups, 1)

(* ----------------------- detect_missed_heartbeats ---------------------- *)

(* variant: late only from a full interval on *)
IsLate_NoTolerance(time_diff) == time_diff >= expected_interval_seconds

(* variant: late from half an interval on *)
IsLate_HalfInterval(time_diff) == 2 * time_diff >= expected_interval_seconds

(* time_diff >= self.expected_interval_seconds * 0.9, for a whole number of
   seconds time_diff *)
IsLate(time_diff) == 10 * time_diff >= 9 * expected_interval_seconds

(* round(time_diff / interval): nearest integer, a tie goes to the even one *)
round_div(n, d) ==
    LET q == n \div d
        r == n % d
    IN  IF 2 * r < d THEN q
        ELSE IF 2 * r > d THEN q + 1
        ELSE IF q % 2 = 0 THEN q ELSE q + 1

IntervalsMissed(time_diff) == round_div(time_diff, expected_interval_seconds)

(* variant: the threshold must be exceeded, not just reached *)
ThresholdExceeded_Strict(misses) == misses > allowed_misses

ThresholdExceeded(misses) == misses >= allowed_misses

(* variant: allowed_misses whole intervals after expected_next *)
AlertTime_NoMinusOne(expected_next) ==
    PlusSeconds(expected_next, expected_interval_seconds * allowed_misses)

(* expected_next + timedelta(seconds=interval * (allowed_misses - 1)) *)
AlertTime(expected_next) ==
    PlusSeconds(expected_next, expected_interval_seconds * (allowed_misses - 1))

(* variant: an on-time heartbeat leaves the counter alone *)
ResetMisses_Keep(misses) == misses

(* the else branch: consecutive_misses = 0 *)
ResetMisses(misses) == 0

MakeAlert(service, alert_time) ==
    [service |-> service, alert_at |-> strftime(alert_time)]

(* event[key]: subscripting a value that is not a dict raises TypeError, a
   dict without the key raises KeyError; "" when the value is read *)
Subscript(event, field) ==
    IF event.kind # "dict" THEN "TypeError"
    ELSE IF field.tag = "absent" THEN "KeyError"
    ELSE ""

(* one iteration of the for loop, on the pair (evs[k], evs[k+1]) with the
   counter at misses: events[i]['timestamp'] and events[i + 1]['timestamp']
   are read in this order, then the datetimes are added and subtracted *)
ScanStep(evs, k, misses) ==
    LET read_current == Subscript(evs[k], evs[k].timestamp)
        read_next == Subscript(evs[k + 1], evs[k + 1].timestamp)
        current_time == parse_timestamp(evs[k].timestamp)
        next_time == parse_timestamp(evs[k + 1].timestamp)
        expected_next == PlusSeconds(current_time, expected_interval_seconds)
        time_diff == DiffSeconds(next_time, expected_next)
        total == misses + IntervalsMissed(time_diff)
    IN  IF read_current # ""
        THEN [status |-> "raise", exc |-> read_current, misses |-> misses,
              alert |-> <<>>]
        ELSE IF read_next # ""
        THEN [status |-> "raise", exc |-> read_next, misses |-> misses,
              alert |-> <<>>]
        ELSE IF ~Comparable(current_time, next_time)
        THEN [status |-> "raise", exc |-> "TypeError", misses |-> misses,
              alert |-> <<>>]
        ELSE IF IsLate(time_diff)
        THEN IF ThresholdExceeded(total)
             THEN [status |-> "alert", exc |-> "", misses |-> total,
                   alert |-> <<MakeAlert(evs[1].service, AlertTime(expected_next))>>]
             ELSE [status |-> "late", exc |-> "", misses |-> total, alert |-> <<>>]
        ELSE [status |-> "ontime", exc |-> "", misses |-> ResetMisses(misses),
              alert |-> <<>>]

(* the loop from pair k on; the result is <<>> for None, <<alert>> for an
   alert, and the scan stops at the first alert *)
RECURSIVE ScanFrom(_, _, _)
ScanFrom(evs, k, misses) ==
    IF k > Len(evs) - 1 THEN [status |-> "ok", exc |-> "", alert |-> <<>>]
    ELSE LET r == ScanStep(evs, k, misses) IN
         IF r.status = "raise"
         THEN [status |-> "raise", exc |-> r.exc, alert |-> <<>>]
         ELSE IF r.status = "alert"
         THEN [status |-> "ok", exc |-> "", alert |-> r.alert]
         ELSE ScanFrom(evs, k + 1, r.misses)

(* an empty list returns None; otherwise service_name = events[0]['service']
   is read before the loop, and raises when the first entry is not a dict or
   has no 'service' key *)
detect_missed_heartbeats(evs) ==
    IF evs = <<>> THEN [status |-> "ok", exc |-> "", alert |-> <<>>]
    ELSE LET read_service == Subscript(evs[1], evs[1].service) IN
         IF read_service # ""
         THEN [status |-> "raise", exc |-> read_service, alert |-> <<>>]
         ELSE ScanFrom(evs, 1, 0)

(* ------------------------------ monitor -------------------------------- *)

Returned(list) == [status |-> "ok", exc |-> "", alerts |-> list]
Raised(exc) == [status |-> "raise", exc |-> exc, alerts |-> <<>>]

(* variant: only the first alert of a pass is kept *)
AppendAlert_KeepFirst(list, alert) == IF list = <<>> THEN list \o alert ELSE list

(* alerts.append(alert) when detect_missed_heartbeats returned one *)
AppendAlert(list, alert) == list \o alert

RECURSIVE ScanGroupsFrom(_, _, _)
ScanGroupsFrom(groups, k, list) ==
    IF k > Len(groups) THEN Returned(list)
    ELSE LET r == detect_missed_heartbeats(groups[k].events) IN
         IF r.status = "raise" THEN Raised(r.exc)
         ELSE ScanGroupsFrom(groups, k + 1, AppendAlert(list, r.alert))

(* monitor as a function of the event list and the configuration *)
monitor(evs) ==
    LET g == group_and_sort_events(evs) IN
    IF g.status = "raise" THEN Raised(g.exc)
    ELSE ScanGroupsFrom(g.groups, 1, <<>>)

(* ------------------------------ sources -------------------------------- *)
(* The file behind a path, as open() and json.load() see it: content is
   "json" when the file opens and json.load returns a value, and otherwise
   the name of the exception that open() or json.load() raises for it:
   FileNotFoundError (no such file), IsADirectoryError, NotADirectoryError
   (a parent of the path is a regular file), PermissionError, OSError (for
   instance a name that is too long), UnicodeDecodeError (bytes that are not
   text in the default encoding), JSONDecodeError (text that is not JSON),
   ValueError (an integer of more than 4300 digits), RecursionError (nesting
   beyond the recursion limit).  For a file that holds JSON text, top is the
   type of the top-level value ("list", "dict" or "other") and data its
   entries (the one record for a dict). *)

File(content, top, data) == [content |-> content, top |-> top, data |-> data]
(* the value of source when load_events is never called *)
NoSource == File("none", "other", <<>>)

(* --------------------------- input families ---------------------------- *)

SvcA == Str(<<"a">>)
SvcB == Str(<<"b">>)

(* the heartbeat of service at tick*step seconds, written with suffix; the
   wall clock of a "+01:00" text is one hour ahead of the instant *)
Beat(service, tick, step, suffix) ==
    Dict(service, TsStr(tick * step + OffsetSeconds(suffix), suffix))

Config(interval, misses, step) ==
    [interval |-> interval, misses |-> misses, step |-> step]

ScanConfigs == {Config(60, 3, 60), Config(2, 2, 1), Config(10, 2, 19),
                Config(1, 1, 1)}
ScanUniverse(step) == {Beat(SvcA, t, step, "Z") : t \in 0..MaxTick}

Malformed ==
    {Null, NotADict, Dict(SvcA, NoTs), Dict(Absent, TsStr(0, "Z")),
     Dict(SvcA, TsStr(0, "invalid")), Dict(SvcA, TsNum(5))}

RawConfigs == {Config(1, 1, 1), Config(1, 2, 1)}
RawUniverse ==
    Malformed
    \cup {Beat(s, t, 1, "Z") : s \in {Str(<<>>), Str(<<" ">>), Num(<<"5">>)},
                               t \in {0, MaxRawTick}}
    \cup {Beat(SvcA, t, 1, "Z") : t \in 0..MaxRawTick}

TzConfigs == {Config(1, 2, 1)}
TzUniverse ==
    {Beat(SvcA, t, 1, suffix) : t \in 0..MaxTzTick,
                                suffix \in {"Z", "+00:00", "+01:00", ""}}

MultiConfigs == {Config(1, 1, 1), Config(1, 2, 1)}
MultiUniverse ==
    {Beat(SvcA, t, 1, "Z") : t \in 0..MaxMultiTick}
    \cup {Beat(SvcB, t, 1, "Z") : t \in {0, MaxMultiTick}}
    \cup {Beat(SvcB, 0, 1, "")}

(* ---------------------------- state machine ---------------------------- *)

Start(cfg, evs, n) ==
    /\ expected_interval_seconds = cfg.interval
    /\ allowed_misses = cfg.misses
    /\ events = evs
    /\ ncalls = n
    /\ pc = "idle"
    /\ service_events = <<>>
    /\ svc = 1
    /\ i = 1
    /\ consecutive_misses = 0
    /\ alerts = <<>>
    /\ history = <<>>
    /\ ctor_args = <<cfg.interval, cfg.misses>>
    /\ source = NoSource
    /\ accepted = <<>>

Init ==
    \E cfg \in ScanConfigs :
        \E evs \in Lists(ScanUniverse(cfg.step), MaxEvents) \cup Lists(Malformed, 1) :
            Start(cfg, evs, 1)

InitRaw ==
    \E cfg \in RawConfigs : \E evs \in Lists(RawUniverse, MaxRawEvents) :
        Start(cfg, evs, 1)

InitTz ==
    \E cfg \in TzConfigs : \E evs \in Lists(TzUniverse, MaxTzEvents) :
        Start(cfg, evs, 1)

InitMulti ==
    \E cfg \in MultiConfigs : \E evs \in Lists(MultiUniverse, MaxMultiEvents) :
        Start(cfg, evs, 1)

InitIdem ==
    \E cfg \in MultiConfigs : \E evs \in Lists(MultiUniverse, MaxMultiEvents - 1) :
        \E n \in 1..MaxCalls : Start(cfg, evs, n)

config == <<expected_interval_seconds, allowed_misses>>

(* variant: the alert list lives on the monitor and is not emptied *)
MonitorGroupSort_KeepAlerts ==
    /\ pc = "idle" /\ Len(history) < ncalls
    /\ group_and_sort_events(events).status = "ok"
    /\ service_events' = group_and_sort_events(events).groups
    /\ pc' = "scan"
    /\ svc' = 1 /\ i' = 1 /\ consecutive_misses' = 0
    /\ UNCHANGED <<accepted, ctor_args, source, config, events, ncalls, history, alerts>>

(* monitor(events) is called and group_and_sort_events returns *)
MonitorGroupSort ==
    /\ pc = "idle" /\ Len(history) < ncalls
    /\ group_and_sort_events(events).status = "ok"
    /\ service_events' = group_and_sort_events(events).groups
    /\ pc' = "scan"
    /\ svc' = 1 /\ i' = 1 /\ consecutive_misses' = 0
    /\ alerts' = <<>>
    /\ UNCHANGED <<accepted, ctor_args, source, config, events, ncalls, history>>

(* monitor(events) is called and group_and_sort_events raises *)
MonitorRaise ==
    /\ pc = "idle" /\ Len(history) < ncalls
    /\ group_and_sort_events(events).status = "raise"
    /\ history' = Append(history, Raised(group_and_sort_events(events).exc))
    /\ UNCHANGED <<accepted, ctor_args, source, config, events, ncalls, pc, service_events, svc, i,
                   consecutive_misses, alerts>>

Scanning == pc = "scan" /\ svc <= Len(service_events)
Current == service_events[svc].events
InLoop == Scanning /\ i <= Len(Current) - 1
Step == ScanStep(Current, i, consecutive_misses)

(* a loop iteration that finds the gap late and the threshold not reached *)
ScanLate ==
    /\ InLoop /\ Step.status = "late"
    /\ consecutive_misses' = Step.misses
    /\ i' = i + 1
    /\ UNCHANGED <<accepted, ctor_args, source, config, events, ncalls, pc, service_events, svc, alerts,
                   history>>

(* a loop iteration that finds the gap within tolerance *)
ScanOnTime ==
    /\ InLoop /\ Step.status = "ontime"
    /\ consecutive_misses' = Step.misses
    /\ i' = i + 1
    /\ UNCHANGED <<accepted, ctor_args, source, config, events, ncalls, pc, service_events, svc, alerts,
                   history>>

(* a loop iteration that reaches the threshold: detect_missed_heartbeats
   returns the alert, monitor appends it and goes to the next service *)
ScanAlert ==
    /\ InLoop /\ Step.status = "alert"
    /\ alerts' = AppendAlert(alerts, Step.alert)
    /\ svc' = svc + 1 /\ i' = 1 /\ consecutive_misses' = 0
    /\ UNCHANGED <<accepted, ctor_args, source, config, events, ncalls, pc, service_events, history>>

(* the loop ends without an alert: detect_missed_heartbeats returns None *)
ScanEnd ==
    /\ Scanning /\ i > Len(Current) - 1
    /\ svc' = svc + 1 /\ i' = 1 /\ consecutive_misses' = 0
    /\ UNCHANGED <<accepted, ctor_args, source, config, events, ncalls, pc, service_events, alerts,
                   history>>

(* every service has been scanned: monitor returns alerts *)
MonitorReturn ==
    /\ pc = "scan" /\ svc > Len(service_events)
    /\ history' = Append(history, Returned(alerts))
    /\ pc' = "idle"
    /\ UNCHANGED <<accepted, ctor_args, source, config, events, ncalls, service_events, svc, i,
                   consecutive_misses, alerts>>

Next ==
    \/ MonitorGroupSort
    \/ MonitorRaise
    \/ ScanLate
    \/ ScanOnTime
    \/ ScanAlert
    \/ ScanEnd
    \/ MonitorReturn

Spec == Init /\ [][Next]_vars
SpecRaw == InitRaw /\ [][Next]_vars
SpecTz == InitTz /\ [][Next]_vars
SpecMulti == InitMulti /\ [][Next]_vars
SpecIdem == InitIdem /\ [][Next]_vars

(* the stepwise run of a call ends with the value of monitor(events) *)
StepwiseAgrees ==
    \A k \in 1..Len(history) : history[k] = monitor(events)

(* ----------------------------- __init__ -------------------------------- *)

(* variant: only a negative miss threshold is refused *)
ValidArgs_ZeroMissesAllowed(interval, misses) == interval > 0 /\ misses >= 0

(* neither of the two checks of __init__ raises ValueError *)
ValidArgs(interval, misses) == interval > 0 /\ misses > 0

CtorArgs == (-1)..MaxCtorArg

(* before HeartbeatMonitor(...) is called: no object, attributes unset *)
InitCtor ==
    \E evs \in Lists(ScanUniverse(1), MaxCtorEvents) \cup Lists(Malformed, 1) :
        /\ expected_interval_seconds = 0
        /\ allowed_misses = 0
        /\ events = evs
        /\ ncalls = 1
        /\ pc = "new"
        /\ service_events = <<>>
        /\ svc = 1
        /\ i = 1
        /\ consecutive_misses = 0
        /\ alerts = <<>>
        /\ history = <<>>
        /\ ctor_args = <<>>
        /\ source = NoSource
        /\ accepted = <<>>

(* HeartbeatMonitor(interval, misses) returns the object *)
Construct ==
    /\ pc = "new"
    /\ \E interval \in CtorArgs, misses \in CtorArgs :
        /\ ValidArgs(interval, misses)
        /\ ctor_args' = <<interval, misses>>
        /\ expected_interval_seconds' = interval
        /\ allowed_misses' = misses
    /\ pc' = "idle"
    /\ UNCHANGED <<accepted, source, events, ncalls, service_events, svc, i,
                   consecutive_misses, alerts, history>>

(* HeartbeatMonitor(interval, misses) raises ValueError: no object exists *)
ConstructRaise ==
    /\ pc = "new"
    /\ \E interval \in CtorArgs, misses \in CtorArgs :
        /\ ~ValidArgs(interval, misses)
        /\ ctor_args' = <<interval, misses>>
    /\ pc' = "no_object"
    /\ UNCHANGED <<accepted, source, config, events, ncalls, service_events, svc, i,
                   consecutive_misses, alerts, history>>

NextCtor == Construct \/ ConstructRaise \/ Next

SpecCtor == InitCtor /\ [][NextCtor]_vars

(* ---------------------------- load_events ------------------------------ *)

Loaded(list) == [status |-> "ok", exc |-> "", events |-> list]
LoadRaised(exc) == [status |-> "raise", exc |-> exc, events |-> <<>>]

(* the loop that keeps the entries validate_event accepts, in order *)
FilterValid(entries) == SelectSeq(entries, validate_event)

(* the exceptions open() and json.load() raise on the files of the model *)
OpenErrors ==
    {"FileNotFoundError", "IsADirectoryError", "NotADirectoryError",
     "PermissionError", "OSError"}
JsonLoadErrors ==
    {"UnicodeDecodeError", "JSONDecodeError", "ValueError", "RecursionError"}

(* the two except clauses of load_events; no other exception class is
   named, and none of the others is a subclass of these two *)
Caught == {"FileNotFoundError", "JSONDecodeError"}

(* load_events: an exception of open() or json.load() named by an except
   clause gives []; any other one leaves load_events.  A decoded dict is
   wrapped in a list, a list is filtered, every other value gives []. *)
load_events(file) ==
    IF file.content \in Caught THEN Loaded(<<>>)
    ELSE IF file.content # "json" THEN LoadRaised(file.content)
    ELSE IF file.top \in {"dict", "list"} THEN Loaded(FilterValid(file.data))
    ELSE Loaded(<<>>)

LoadConfigs == {Config(1, 2, 1)}
LoadUniverse ==
    Malformed
    \cup {Beat(SvcA, t, 1, "Z") : t \in 0..MaxLoadTick}
    \cup {Beat(SvcA, 0, 1, ""), Beat(Str(<<" ">>), 0, 1, "Z"),
          Beat(Str(<<"\t">>), 0, 1, "Z")}

Files ==
    {File(e, "other", <<>>) : e \in OpenErrors \cup JsonLoadErrors}
    \cup {File(e, "list", <<Beat(SvcA, 0, 1, "Z"), Beat(SvcA, 1, 1, "Z")>>) :
             e \in {"PermissionError", "JSONDecodeError", "ValueError"}}
    \cup {File("ValueError", "list", <<NotADict>>),
          File("ValueError", "dict", <<Beat(SvcA, 0, 1, "Z")>>),
          File("RecursionError", "list", <<NotADict>>)}
    \cup {File("json", "other", <<>>)}
    \cup {File("json", "dict", <<e>>) : e \in {x \in LoadUniverse : x.kind = "dict"}}
    \cup {File("json", "list", l) : l \in Lists(LoadUniverse, MaxLoadEvents)}

(* a monitor has been built and load_events is about to be called *)
InitLoad ==
    \E cfg \in LoadConfigs : \E file \in Files :
        /\ expected_interval_seconds = cfg.interval
        /\ allowed_misses = cfg.misses
        /\ events = <<>>
        /\ ncalls = 1
        /\ pc = "unloaded"
        /\ service_events = <<>>
        /\ svc = 1
        /\ i = 1
        /\ consecutive_misses = 0
        /\ alerts = <<>>
        /\ history = <<>>
        /\ ctor_args = <<cfg.interval, cfg.misses>>
        /\ source = file
        /\ accepted = <<>>

(* events = monitor.load_events(filepath) returns *)
LoadEvents ==
    /\ pc = "unloaded"
    /\ load_events(source).status = "ok"
    /\ events' = load_events(source).events
    /\ pc' = "idle"
    /\ UNCHANGED <<accepted, ctor_args, source, config, ncalls, service_events, svc, i,
                   consecutive_misses, alerts, history>>

(* load_events raises: the caller never gets an event list *)
LoadRaise ==
    /\ pc = "unloaded"
    /\ load_events(source).status = "raise"
    /\ pc' = "load_raised"
    /\ UNCHANGED <<accepted, ctor_args, source, config, events, ncalls, service_events,
                   svc, i, consecutive_misses, alerts, history>>

NextLoad == LoadEvents \/ LoadRaise \/ Next

SpecLoad == InitLoad /\ [][NextLoad]_vars

(* ---------------------- validate_event, by itself ---------------------- *)

ValidateConfigs == {Config(1, 2, 1)}
ValidateUniverse ==
    LoadUniverse \cup RawUniverse \cup {Beat(SvcA, 0, 1, "+01:00")}

(* a list of candidate events, none of them validated yet *)
InitValidate ==
    \E cfg \in ValidateConfigs :
        \E evs \in Lists(ValidateUniverse, MaxValidEvents) : Start(cfg, evs, 1)

(* validate_event(e) is called on the next entry of the list, as in
   [e for e in events if monitor.validate_event(e)] *)
ValidateEvent ==
    /\ pc = "idle" /\ Len(accepted) < Len(events)
    /\ accepted' = Append(accepted, validate_event(events[Len(accepted) + 1]))
    /\ UNCHANGED <<ctor_args, source, config, events, ncalls, pc,
                   service_events, svc, i, consecutive_misses, alerts, history>>

NextValidate == ValidateEvent

SpecValidate == InitValidate /\ [][NextValidate]_vars

(* --------------------------- later heartbeats --------------------------- *)

LaterConfigs == {Config(1, 2, 1)}
LaterUniverse ==
    {Beat(SvcA, t, 1, suffix) : t \in 0..MaxLaterTick, suffix \in {"Z", ""}}

(* the instant a timestamp denotes, a text without offset being read as UTC *)
InstantOf(event) == UtcSeconds(parse_timestamp(event.timestamp))

(* e is not earlier than any event of its service in evs *)
NotEarlier(e, evs) ==
    \A k \in 1..Len(evs) :
        evs[k].service = e.service => InstantOf(e) >= InstantOf(evs[k])

InsertAt(evs, pos, e) ==
    SubSeq(evs, 1, pos) \o <<e>> \o SubSeq(evs, pos + 1, Len(evs))

InitLater ==
    \E cfg \in LaterConfigs : \E evs \in Lists(LaterUniverse, MaxLaterEvents) :
        Start(cfg, evs, 2)

(* after a pass that alerted, the caller's list receives one more heartbeat
   of a service, not earlier than the latest one of that service *)
AddLater ==
    /\ pc = "idle" /\ Len(history) = 1 /\ history[1].alerts # <<>>
    /\ Len(events) < MaxLaterEvents + MaxAdded
    /\ \E e \in LaterUniverse : \E pos \in 0..Len(events) :
        /\ NotEarlier(e, events)
        /\ events' = InsertAt(events, pos, e)
    /\ UNCHANGED <<accepted, ctor_args, source, config, ncalls, pc, service_events, svc,
                   i, consecutive_misses, alerts, history>>

NextLater == AddLater \/ Next

SpecLater == InitLater /\ [][NextLater]_vars

(* ------------------- gaps of a chronological sequence ------------------ *)
(* Stated from the definitions of the terms, not from the scan loop: gap k
   of a sorted list lies between its events k and k+1. *)

TimeOf(evs, k) == parse_timestamp(evs[k].timestamp)

ExpectedNext(evs, k) == PlusSeconds(TimeOf(evs, k), expected_interval_seconds)

Deviation(evs, k) == DiffSeconds(TimeOf(evs, k + 1), ExpectedNext(evs, k))

LateGap(evs, k) == 10 * Deviation(evs, k) >= 9 * expected_interval_seconds

(* the whole number of intervals nearest to the deviation of a late gap *)
MissedIn(evs, k) ==
    LET d == Deviation(evs, k)
        I == expected_interval_seconds
    IN  CHOOSE n \in 0..(d \div I + 1) :
            \/ 2 * (d - n * I) < I /\ 2 * (n * I - d) < I
            \/ 2 * (d - n * I) = I /\ n % 2 = 0
            \/ 2 * (n * I - d) = I /\ n % 2 = 0

Gaps(evs) == 1..(Len(evs) - 1)

(* first gap of the unbroken run of late gaps that gap k belongs to *)
RunStart(evs, k) == Min({j \in 1..k : \A m \in j..k : LateGap(evs, m)})

(* missed intervals accumulated by that run up to and including gap k *)
RunMisses(evs, k) ==
    SumSeq([m \in 1..(k - RunStart(evs, k) + 1) |->
               MissedIn(evs, RunStart(evs, k) + m - 1)])

(* gap k closes a maximal run of late gaps *)
RunEnd(evs, k) ==
    LateGap(evs, k) /\ (k = Len(evs) - 1 \/ ~LateGap(evs, k + 1))

Crossing(evs, k) == LateGap(evs, k) /\ RunMisses(evs, k) >= allowed_misses

HasCrossing(evs) == \E k \in Gaps(evs) : Crossing(evs, k)

FirstCrossing(evs) == Min({k \in Gaps(evs) : Crossing(evs, k)})

TotalMisses(evs) ==
    SumSeq([k \in Gaps(evs) |-> IF LateGap(evs, k) THEN MissedIn(evs, k) ELSE 0])

(* a call of monitor has returned (not raised) and its groups are at hand *)
ReturnedOk == pc = "idle" /\ Len(history) >= 1 /\ history[1].status = "ok"

AlertsFor(result, service) ==
    SelectSeq(result.alerts, LAMBDA a : a.service = service)

ValidOnly(evs) == SelectSeq(evs, validate_event)

ZBeats(ticks, step) == [k \in 1..Len(ticks) |-> Beat(SvcA, ticks[k], step, "Z")]

(* ------------------------------- claims -------------------------------- *)

(* C1: whatever the input list holds (null entries, non-dict entries,
   records without service or timestamp, blank services, unparseable
   timestamps), monitor returns without raising and its alerts are those
   computed from the records validate_event accepts.  Stated as claimed;
   the code does not hold it, monitor never calls validate_event. *)
C1_MalformedExcluded ==
    \A k \in 1..Len(history) :
        /\ history[k].status = "ok"
        /\ history[k].alerts = monitor(ValidOnly(events)).alerts

(* C2: every alert monitor returns for a service carries
   alert_at = expected_next + (allowed_misses - 1) * expected_interval, with
   expected_next taken at the first gap, in chronological order, at which
   the run of consecutive misses reaches allowed_misses; with interval 60,
   allowed_misses 3 and heartbeats at 10:00, 10:01, 10:02, 10:06 the alert
   is at 10:05:00Z. *)
C2_AlertAtFormula ==
    ReturnedOk =>
        /\ \A n \in 1..Len(history[1].alerts) :
             \E g \in 1..Len(service_events) :
                LET evs == service_events[g].events IN
                /\ service_events[g].service = history[1].alerts[n].service
                /\ HasCrossing(evs)
                /\ history[1].alerts[n].alert_at =
                       strftime(PlusSeconds(ExpectedNext(evs, FirstCrossing(evs)),
                           (allowed_misses - 1) * expected_interval_seconds))
        /\ (/\ expected_interval_seconds = 60 /\ allowed_misses = 3
            /\ events = ZBeats(<<0, 1, 2, 6>>, 60))
           => history[1].alerts = <<[service |-> SvcA, alert_at |-> TsStr(300, "Z")]>>

C2_Witness ==
    /\ ReturnedOk
    /\ expected_interval_seconds = 60 /\ allowed_misses = 3
    /\ events = ZBeats(<<0, 1, 2, 6>>, 60)
    /\ Len(history[1].alerts) = 1

(* C3: only consecutive misses count: a service whose every maximal run of
   late gaps accumulates fewer than allowed_misses missed intervals gets no
   alert, even when the misses of the whole sequence add up to
   allowed_misses or more. *)
C3_OnlyConsecutiveMissesCount ==
    ReturnedOk =>
        \A g \in 1..Len(service_events) :
            LET evs == service_events[g].events IN
            (\A k \in Gaps(evs) : RunEnd(evs, k) => RunMisses(evs, k) < allowed_misses)
            => AlertsFor(history[1], service_events[g].service) = <<>>

(* two misses, an on-time heartbeat, two more misses, threshold three *)
C3_Witness ==
    /\ ReturnedOk
    /\ allowed_misses = 3 /\ Len(service_events) = 1
    /\ LET evs == service_events[1].events IN
       /\ Len(evs) = 4
       /\ LateGap(evs, 1) /\ MissedIn(evs, 1) = 2
       /\ ~LateGap(evs, 2)
       /\ LateGap(evs, 3) /\ MissedIn(evs, 3) = 2
       /\ TotalMisses(evs) >= allowed_misses
    /\ history[1].alerts = <<>>

(* C4: a service alerts whenever an unbroken run of late gaps accumulates
   at least allowed_misses missed intervals, the sum being exactly
   allowed_misses included: one gap missing exactly allowed_misses
   intervals alerts, and so do allowed_misses consecutive gaps missing one
   interval each. *)
C4_RunReachingThresholdAlerts ==
    ReturnedOk =>
        \A g \in 1..Len(service_events) :
            HasCrossing(service_events[g].events)
            => AlertsFor(history[1], service_events[g].service) # <<>>

(* allowed_misses = 3 consecutive gaps that each miss exactly one interval *)
C4_Witness ==
    /\ ReturnedOk
    /\ allowed_misses = 3 /\ Len(service_events) = 1
    /\ LET evs == service_events[1].events IN
       /\ Len(evs) = 4
       /\ \A k \in 1..3 : LateGap(evs, k) /\ MissedIn(evs, k) = 1
       /\ RunMisses(evs, 3) = allowed_misses
    /\ Len(history[1].alerts) = 1

(* C5: in the list one monitor call returns no service appears in two
   alerts, and every service whose scan crosses the threshold appears
   exactly once, however many of its gaps qualify. *)
C5_OneAlertPerService ==
    ReturnedOk =>
        /\ \A m, n \in 1..Len(history[1].alerts) :
             history[1].alerts[m].service = history[1].alerts[n].service => m = n
        /\ \A g \in 1..Len(service_events) :
             HasCrossing(service_events[g].events)
             => Len(AlertsFor(history[1], service_events[g].service)) = 1

(* a pass over two services in which one service has two qualifying gaps
   and is reported once *)
C5_Witness ==
    /\ ReturnedOk
    /\ Len(service_events) = 2
    /\ \E g \in 1..Len(service_events) :
         /\ Cardinality({k \in Gaps(service_events[g].events) :
                            Crossing(service_events[g].events, k)}) >= 2
         /\ Len(AlertsFor(history[1], service_events[g].service)) = 1

Permuted(evs, p) == [k \in 1..Len(evs) |-> evs[p[k]]]

(* C6: order-insensitivity: for a list of valid events and any permutation
   of it, monitor yields the same alerts.  Stated as claimed; the code does
   not hold it when two events of a service denote the same instant with
   different UTC offsets, because alert_at is rendered in the offset of the
   event the stable sort happens to put first (see C8). *)
C6_OrderInsensitive ==
    (ReturnedOk /\ \A k \in 1..Len(events) : validate_event(events[k])) =>
        \A p \in Permutations(1..Len(events)) :
            /\ monitor(Permuted(events, p)).status = history[1].status
            /\ Range(monitor(Permuted(events, p)).alerts) = Range(history[1].alerts)

OnlyService(evs, service) ==
    SelectSeq(evs, LAMBDA e : e.kind = "dict" /\ e.service = service)

(* C7: multi-service independence: the alert for a service (its presence
   and its alert_at) depends only on the events of that service, whatever
   the events of the other services in the batch are.  Stated as claimed;
   the code does not hold it: events of another service that cannot be
   sorted make the whole call raise. *)
C7_ServiceIndependence ==
    \A k \in 1..Len(history) :
        \A service \in {SvcA, SvcB} :
            AlertsFor(history[k], service)
                = AlertsFor(monitor(OnlyService(events, service)), service)

(* the same events, each written in the trailing-Z notation *)
InZNotation(evs) ==
    [k \in 1..Len(evs) |->
        [evs[k] EXCEPT !.timestamp =
            TsStr(UtcSeconds(parse_timestamp(evs[k].timestamp)), "Z")]]

(* C8: alert_at is the UTC rendering of the alert instant: read as the UTC
   text it is, it denotes the instant expected_next + (allowed_misses - 1)
   * expected_interval, and inputs that denote the same instants with
   different UTC offsets give the same alert_at.  Stated as claimed; the
   code prints the wall clock of the event's own offset and appends Z. *)
C8_AlertAtIsUtc ==
    (ReturnedOk /\ \A k \in 1..Len(events) :
                       parse_timestamp(events[k].timestamp).kind = "aware") =>
        /\ \A n \in 1..Len(history[1].alerts) :
             \E g \in 1..Len(service_events) :
                LET evs == service_events[g].events IN
                /\ service_events[g].service = history[1].alerts[n].service
                /\ HasCrossing(evs)
                /\ UtcSeconds(parse_timestamp(history[1].alerts[n].alert_at)) =
                       UtcSeconds(PlusSeconds(ExpectedNext(evs, FirstCrossing(evs)),
                           (allowed_misses - 1) * expected_interval_seconds))
        /\ monitor(InZNotation(events)).alerts = history[1].alerts

ValidCount(evs, service) ==
    Cardinality({k \in 1..Len(evs) :
                    validate_event(evs[k]) /\ evs[k].service = service})

(* C9: a service with fewer than two valid events in the input never
   produces an alert.  Stated as claimed; the code does not hold it: records
   validate_event rejects for their service (blank, or not a string) are
   grouped and scanned like any other. *)
C9_FewerThanTwoNoAlert ==
    \A k \in 1..Len(history) :
        \A n \in 1..Len(history[k].alerts) :
            ValidCount(events, history[k].alerts[n].service) >= 2

(* C10: idempotence: every call of monitor on the same monitor with the
   same list gives the same outcome, and no step of a call changes the
   configuration or the caller's list. *)
C10_Idempotent ==
    /\ [](\A j, k \in 1..Len(history) : history[j] = history[k])
    /\ [][events' = events /\ config' = config]_vars

(* a second call has returned after a first one that raised an alert *)
C10_Witness ==
    /\ Len(history) >= 2
    /\ history[1].status = "ok" /\ history[1].alerts # <<>>
    /\ history[2].alerts # <<>>

(* C11: constructing a monitor with expected_interval_seconds <= 0 or
   allowed_misses <= 0 fails and leaves no usable object (nothing is ever
   run on it); every monitor that exists has both values > 0, equal to the
   arguments it was built with. *)
C11_ConstructionValidated ==
    /\ (ctor_args # <<>> /\ (ctor_args[1] <= 0 \/ ctor_args[2] <= 0))
       => (pc = "no_object" /\ history = <<>> /\ config = <<0, 0>>)
    /\ pc \in {"idle", "scan"}
       => (/\ expected_interval_seconds > 0 /\ allowed_misses > 0
           /\ config = ctor_args)

(* construction was refused for a zero miss threshold alone *)
C11_Witness ==
    pc = "no_object" /\ ctor_args[1] > 0 /\ ctor_args[2] = 0

(* C12: late-arrival policy: in every loop iteration on a pair (current,
   next), with deviation = next - (current + expected_interval), the gap
   adds the nearest whole number of intervals in the deviation to
   consecutive_misses if and only if deviation >= 0.9 * expected_interval
   (the scan returning its alert when that reaches the threshold); for any
   other deviation the counter is reset to 0. *)
C12_LateArrivalPolicy ==
    [][InLoop =>
        LET total == consecutive_misses + MissedIn(Current, i) IN
        IF 10 * Deviation(Current, i) >= 9 * expected_interval_seconds
        THEN IF total >= allowed_misses
             THEN svc' = svc + 1 /\ Len(alerts') = Len(alerts) + 1
             ELSE svc' = svc /\ i' = i + 1 /\ consecutive_misses' = total
        ELSE svc' = svc /\ i' = i + 1 /\ consecutive_misses' = 0 /\ alerts' = alerts
    ]_vars

(* a gap 0.9 interval late has been counted as one missed interval *)
C12_Witness ==
    /\ pc = "scan" /\ svc = 1 /\ i = 2
    /\ expected_interval_seconds = 10
    /\ Deviation(Current, 1) = 9
    /\ consecutive_misses = 1

(* the records the claim says validate_event accepts: a dict whose service
   is a string with a non-blank character and whose timestamp is a text in
   the trailing-Z or the explicit-offset notation *)
AcceptedNotation(e) ==
    /\ e.kind = "dict"
    /\ e.service.tag = "str"
    /\ \E k \in 1..Len(e.service.text) : e.service.text[k] \notin Whitespace
    /\ e.timestamp.tag = "str"
    /\ e.timestamp.suffix \in {"Z"} \cup OffsetSuffixes

(* C13: validate_event accepts a record if and only if it is a dict with a
   non-blank string service and a timestamp in one of the two accepted
   notations (trailing Z, explicit UTC offset), and any two records it
   accepts can be ordered by timestamp.  Stated as claimed; the code also
   accepts a timestamp without offset, which cannot be compared with one
   that carries an offset. *)
C13_ValidateEvent ==
    /\ \A k \in 1..Len(accepted) :
         accepted[k] <=> AcceptedNotation(events[k])
    /\ \A j, k \in 1..Len(accepted) :
         (accepted[j] /\ accepted[k])
         => Comparable(SortKey(events[j]), SortKey(events[k]))

(* sorted is the stable ascending sort of original: the same entries, keys
   non-decreasing, entries of equal key in their original order *)
IsStableSortOf(sorted, original) ==
    /\ Len(sorted) = Len(original)
    /\ \E p \in Permutations(1..Len(original)) :
         /\ \A k \in 1..Len(sorted) : sorted[k] = original[p[k]]
         /\ \A j, k \in 1..Len(sorted) :
              j < k => /\ Comparable(SortKey(sorted[j]), SortKey(sorted[k]))
                       /\ DiffSeconds(SortKey(sorted[j]), SortKey(sorted[k])) <= 0
                       /\ (DiffSeconds(SortKey(sorted[j]), SortKey(sorted[k])) = 0
                           => p[j] < p[k])

GroupedAndSorted(groups, evs) ==
    /\ {groups[g].service : g \in 1..Len(groups)} = {evs[k].service : k \in 1..Len(evs)}
    /\ \A g, h \in 1..Len(groups) : groups[g].service = groups[h].service => g = h
    /\ \A g \in 1..Len(groups) :
         IsStableSortOf(groups[g].events, OnlyService(evs, groups[g].service))

(* C14: on a list of valid events group_and_sort_events returns a mapping
   whose keys are exactly the distinct service strings of the input and
   whose lists hold exactly the events of their service, non-decreasing by
   timestamp, equal timestamps in input order.  Stated as claimed; the code
   returns no mapping when a service has both a timestamp without offset
   and one with an offset, both valid for validate_event (see C13). *)
C14_GroupAndSort ==
    ((\A k \in 1..Len(events) : validate_event(events[k]))
        /\ (pc = "scan" \/ Len(history) >= 1)) =>
        /\ group_and_sort_events(events).status = "ok"
        /\ GroupedAndSorted(service_events, events)

(* the source is a file that exists and decodes to an object or a list *)
Readable(file) == file.content = "json" /\ file.top \in {"dict", "list"}

(* C15: load_events returns exactly the records of the decoded source that
   validate_event accepts, in their original order, a single top-level
   object counting as a one-record list; when the top-level value is
   neither an object nor a list, or the file is missing or not decodable,
   it returns the empty list instead of raising, and monitor over that
   result returns zero alerts.  Stated as claimed; the code lets the
   decoding error of a file that is not text in the default encoding
   escape. *)
C15_LoadEvents ==
    pc # "unloaded" =>
        /\ pc # "load_raised"
        /\ events = IF Readable(source) THEN SelectSeq(source.data, validate_event)
                    ELSE <<>>
        /\ (~Readable(source) /\ Len(history) >= 1) => history[1] = Returned(<<>>)

(* the alert lies in gap k of evs: after the earlier event, not after the
   late event that closes the gap *)
InsideGap(alert_at, evs, k) ==
    /\ DiffSeconds(parse_timestamp(alert_at), TimeOf(evs, k)) > 0
    /\ DiffSeconds(TimeOf(evs, k + 1), parse_timestamp(alert_at)) >= 0

(* C16: whenever an alert fires, alert_at lies inside the gap that crossed
   the threshold: strictly later than the earlier event of that gap and not
   later than the late event that closes it, whether the threshold is
   reached by one gap or by misses accumulated over several consecutive
   late gaps.  Stated as claimed; the code adds allowed_misses - 1
   intervals whatever was already accumulated, which can pass the closing
   event. *)
C16_AlertInsideGap ==
    ReturnedOk =>
        \A n \in 1..Len(history[1].alerts) :
            \E g \in 1..Len(service_events) :
                LET evs == service_events[g].events IN
                /\ service_events[g].service = history[1].alerts[n].service
                /\ HasCrossing(evs)
                /\ InsideGap(history[1].alerts[n].alert_at, evs, FirstCrossing(evs))

(* C17: alerts are stable under later heartbeats: once monitor has alerted
   for a service, adding events of that service that are not earlier than
   its latest event leaves the service alerted with the same alert_at.
   Stated as claimed; in the code a later heartbeat written without offset
   makes the next pass raise (see C13), and the alert is gone. *)
C17_StableUnderLaterBeats ==
    (pc = "idle" /\ Len(history) = 2) =>
        \A n \in 1..Len(history[1].alerts) :
            history[1].alerts[n] \in Range(history[2].alerts)

(* C18: loop invariant of the gap scan: at the start of every iteration
   0 <= consecutive_misses < allowed_misses; a gap with deviation >= 0.9
   interval rounds to at least one interval, so every gap the loop finds
   late raises the counter by at least 1; and a scan of n events never
   starts more than n - 1 iterations. *)
C18_LoopInvariant ==
    Scanning =>
        /\ 0 <= consecutive_misses /\ consecutive_misses < allowed_misses
        /\ 1 <= i /\ i <= Len(Current)
        /\ InLoop =>
            /\ LateGap(Current, i) => MissedIn(Current, i) >= 1
            /\ Step.status \in {"late", "alert"}
               => Step.misses >= consecutive_misses + 1

(* an iteration starts with misses already counted and finds one more late
   gap below the threshold *)
C18_Witness ==
    /\ InLoop /\ consecutive_misses >= 1
    /\ Step.status = "late"
    /\ Step.misses > consecutive_misses

====
